---- MODULE Spec2Model ----
(***************************************************************************)
(* extractify: main.go.  The command reads one local file, one URL or a    *)
(* batch of URLs, scans each source with Run and prints the selected       *)
(* categories with HandleResults.                                          *)
(*                                                                         *)
(* Strings whose characters the code inspects (endpoint candidates, the    *)
(* custom header) are sequences of one-character strings.  The package     *)
(* scanner (SecretsMatch, EndpointsMatch, ParameterMatch) is not part of   *)
(* main.go; a content is a sequence of tokens and each matcher returns the *)
(* tokens of its kind, as the design document describes the matchers.      *)
(***************************************************************************)
EXTENDS Integers, Sequences, FiniteSets, TLC

VARIABLES opt, env, URLs, idx, pc, Data, Source, result, out

vars == <<opt, env, URLs, idx, pc, Data, Source, result, out>>

(* ------------------------------ bounds -------------------------------- *)

\* longest content (in tokens) assembled for one source
MaxLen == 4

\* most words in the URL list file / on standard input
MaxURLs == 3

(* ----------------------------- strings -------------------------------- *)

http == <<"h", "t", "t", "p">>

https == <<"h", "t", "t", "p", "s">>

\* endpoint candidates: empty, shorter than 4, exactly "http", "https",
\* "httpf" (not a scheme), a relative path, and a capitalised "Http"
Candidates ==
    { <<>>,
      <<"h", "t", "t">>,
      http,
      https,
      <<"h", "t", "t", "p", "f">>,
      <<"/", "a">>,
      <<"H", "t", "t", "p">> }

ParamNames == { <<"i", "d">>, <<"n", "a", "m", "e">> }

SecretTexts == { <<"A", "K", "I", "A">>, <<"t", "o", "k">> }

\* the rule table of the scanner: ordered, each rule a name and the texts it matches
Rules ==
    << [Name |-> "aws", Texts |-> { <<"A", "K", "I", "A">> }],
       [Name |-> "generic", Texts |-> SecretTexts] >>

Tokens ==
    [k : {"endpoint"}, s : Candidates]
        \cup [k : {"param"}, s : ParamNames]
        \cup [k : {"secret"}, s : SecretTexts]

(* ------------------------ package scanner ----------------------------- *)

RECURSIVE TextsOf(_, _)
\* the texts of the tokens of kind k, in document order, repeats kept
TextsOf(D, k) ==
    IF D = <<>> THEN <<>>
    ELSE IF Head(D).k = k THEN <<Head(D).s>> \o TextsOf(Tail(D), k)
    ELSE TextsOf(Tail(D), k)

EndpointsMatch(D) == TextsOf(D, "endpoint")

ParameterMatch(D) == TextsOf(D, "param")

RECURSIVE RuleMatches(_, _, _)
\* every occurrence of one rule, left to right
RuleMatches(rule, S, texts) ==
    IF texts = <<>> THEN <<>>
    ELSE IF Head(texts) \in rule.Texts
         THEN <<[Secret |-> [Name |-> rule.Name], Match |-> Head(texts), Source |-> S]>>
                  \o RuleMatches(rule, S, Tail(texts))
         ELSE RuleMatches(rule, S, Tail(texts))

RECURSIVE SecretsFrom(_, _, _)
SecretsFrom(r, S, texts) ==
    IF r > Len(Rules) THEN <<>>
    ELSE RuleMatches(Rules[r], S, texts) \o SecretsFrom(r + 1, S, texts)

\* rules in declaration order, occurrences of a rule in document order
SecretsMatch(S, D) == SecretsFrom(1, S, TextsOf(D, "secret"))

(* --------------------------- sUtils.Dedupe ---------------------------- *)

RECURSIVE DedupeFrom(_, _, _)
DedupeFrom(inputSlice, seen, acc) ==
    IF inputSlice = <<>> THEN acc
    ELSE IF Head(inputSlice) \in seen
         THEN DedupeFrom(Tail(inputSlice), seen, acc)
         ELSE DedupeFrom(Tail(inputSlice), seen \cup {Head(inputSlice)},
                         Append(acc, Head(inputSlice)))

Dedupe(inputSlice) == DedupeFrom(inputSlice, {}, <<>>)

(* -------------------------------- Run --------------------------------- *)

\* v[:n] is in range iff n <= len(v); otherwise Go panics
SliceInRange(v, n) == n <= Len(v)

\* len(v) >= n && v[:n] == p, evaluated left to right with short circuit
GuardedPrefix(v, n, p) ==
    IF Len(v) >= n
    THEN IF ~SliceInRange(v, n) THEN "panic"
         ELSE IF SubSeq(v, 1, n) = p THEN "true" ELSE "false"
    ELSE "false"

\* v[:n] == p with no length test before the slice
UnguardedPrefix(v, n, p) ==
    IF ~SliceInRange(v, n) THEN "panic"
    ELSE IF SubSeq(v, 1, n) = p THEN "true" ELSE "false"

PrefixTestUnguarded(v) ==
    LET first == UnguardedPrefix(v, 4, http)
    IN  IF first # "false" THEN first ELSE UnguardedPrefix(v, 5, https)

\* the condition of line 125: "true", "false", or "panic" for a slice out of range
PrefixTest(v) ==
    LET first == GuardedPrefix(v, 4, http)
    IN  IF first # "false" THEN first ELSE GuardedPrefix(v, 5, https)

RECURSIVE ClassifyBoth(_, _, _, _)
\* a URL is appended to sortedUrls and falls through to sortedEndpoints too
ClassifyBoth(raw, i, sortedUrls, sortedEndpoints) ==
    IF i > Len(raw)
    THEN [raised |-> FALSE, urls |-> sortedUrls, endpoints |-> sortedEndpoints]
    ELSE IF PrefixTest(raw[i]) = "true"
         THEN ClassifyBoth(raw, i + 1, Append(sortedUrls, raw[i]),
                           Append(sortedEndpoints, raw[i]))
         ELSE ClassifyBoth(raw, i + 1, sortedUrls, Append(sortedEndpoints, raw[i]))

RECURSIVE ClassifyUnique(_, _, _, _)
\* a candidate already collected is not appended again
ClassifyUnique(raw, i, sortedUrls, sortedEndpoints) ==
    IF i > Len(raw)
    THEN [raised |-> FALSE, urls |-> sortedUrls, endpoints |-> sortedEndpoints]
    ELSE IF \E j \in 1..(i - 1) : raw[j] = raw[i]
         THEN ClassifyUnique(raw, i + 1, sortedUrls, sortedEndpoints)
         ELSE IF PrefixTest(raw[i]) = "true"
              THEN ClassifyUnique(raw, i + 1, Append(sortedUrls, raw[i]), sortedEndpoints)
              ELSE ClassifyUnique(raw, i + 1, sortedUrls, Append(sortedEndpoints, raw[i]))

RECURSIVE Classify(_, _, _, _)
\* the loop of lines 124-131, from element i on
Classify(raw, i, sortedUrls, sortedEndpoints) ==
    IF i > Len(raw)
    THEN [raised |-> FALSE, urls |-> sortedUrls, endpoints |-> sortedEndpoints]
    ELSE LET t == PrefixTest(raw[i])
         IN  IF t = "panic"
             THEN [raised |-> TRUE, urls |-> sortedUrls, endpoints |-> sortedEndpoints]
             ELSE IF t = "true"
                  THEN Classify(raw, i + 1, Append(sortedUrls, raw[i]), sortedEndpoints)
                  ELSE Classify(raw, i + 1, sortedUrls, Append(sortedEndpoints, raw[i]))

\* Run returning the parameter matches as matched
RunRawParameters(D, S) ==
    LET c == Classify(EndpointsMatch(D), 1, <<>>, <<>>)
    IN  [raised |-> c.raised, secrets |-> SecretsMatch(S, D), urls |-> c.urls,
         endpoints |-> c.endpoints, parameters |-> ParameterMatch(D)]

\* Run deduplicating the secret matches as it does the parameters
RunDedupeSecrets(D, S) ==
    LET c == Classify(EndpointsMatch(D), 1, <<>>, <<>>)
    IN  [raised |-> c.raised, secrets |-> Dedupe(SecretsMatch(S, D)), urls |-> c.urls,
         endpoints |-> c.endpoints, parameters |-> Dedupe(ParameterMatch(D))]

Run(D, S) ==
    LET SecretMatchResult == SecretsMatch(S, D)
        EndpointMatchResult == EndpointsMatch(D)
        c == Classify(EndpointMatchResult, 1, <<>>, <<>>)
        ParameterMatchResults == ParameterMatch(D)
    IN  [raised |-> c.raised,
         secrets |-> SecretMatchResult,
         urls |-> c.urls,
         endpoints |-> c.endpoints,
         parameters |-> Dedupe(ParameterMatchResults)]

\* no scan has produced a result yet
NoResult == [raised |-> FALSE, secrets |-> <<>>, urls |-> <<>>, endpoints |-> <<>>,
             parameters |-> <<>>]

(* ------------------------- presentation ------------------------------- *)

Event(ev, cat, items) == [ev |-> ev, cat |-> cat, items |-> items, src |-> ""]

HandleSecret(secrets) ==
    IF Len(secrets) > 0
    THEN <<Event("results", "Secrets", secrets)>>
    ELSE <<Event("noresults", "Secrets", <<>>)>>

HandleEndpoint(endpoints) ==
    IF Len(endpoints) > 0
    THEN <<Event("results", "Endpoints", endpoints)>>
    ELSE <<Event("noresults", "Endpoints", <<>>)>>

HandleURL(urls) ==
    IF Len(urls) > 0
    THEN <<Event("results", "URLs", urls)>>
    ELSE <<Event("noresults", "URLs", <<>>)>>

HandleParameter(parameters) ==
    IF Len(parameters) > 0
    THEN <<Event("results", "Parameters", parameters)>>
    ELSE <<Event("noresults", "Parameters", <<>>)>>

\* with no flag set nothing is presented
HandleResultsNoDefault(endpoint, parameter, url, secret, all, secrets, urls, endpoints, parameters) ==
    IF endpoint THEN HandleEndpoint(endpoints)
    ELSE IF parameter THEN HandleParameter(parameters)
    ELSE IF url THEN HandleURL(urls)
    ELSE IF secret THEN HandleSecret(secrets)
    ELSE IF all THEN HandleSecret(secrets) \o HandleURL(urls)
                       \o HandleEndpoint(endpoints) \o HandleParameter(parameters)
    ELSE <<>>

HandleResults(endpoint, parameter, url, secret, all, secrets, urls, endpoints, parameters) ==
    IF endpoint THEN HandleEndpoint(endpoints)
    ELSE IF parameter THEN HandleParameter(parameters)
    ELSE IF url THEN HandleURL(urls)
    ELSE IF secret THEN HandleSecret(secrets)
    ELSE IF all THEN HandleSecret(secrets) \o HandleURL(urls)
                       \o HandleEndpoint(endpoints) \o HandleParameter(parameters)
    ELSE HandleSecret(secrets)

\* the terminal output of one source, attributed to it
Tag(events, src) ==
    [i \in 1..Len(events) |-> [events[i] EXCEPT !.src = src]]

(* ----------------------------- Request -------------------------------- *)

okURL == "https://ok.test"

downURL == "https://down.test"

relativeURL == "/relative"

noHostURL == "http://"

URLSet == {okURL, downURL, relativeURL, noHostURL}

\* urlutil.ParseURL behind the wrapper of lines 204-210: a relative path parses
\* with an empty host; the empty string and an absolute URL without a host are
\* errors, for which the parser returns no URL (nil)
ParseURL(url) ==
    IF url = "" \/ url = noHostURL THEN [nil |-> TRUE, Host |-> "", Scheme |-> ""]
    ELSE IF url = relativeURL THEN [nil |-> FALSE, Host |-> "", Scheme |-> ""]
    ELSE IF url = okURL THEN [nil |-> FALSE, Host |-> "ok.test", Scheme |-> "https"]
    ELSE [nil |-> FALSE, Host |-> "down.test", Scheme |-> "https"]

RECURSIVE SplitFrom(_, _, _)
SplitFrom(s, sep, piece) ==
    IF s = <<>> THEN <<piece>>
    ELSE IF Head(s) = sep THEN <<piece>> \o SplitFrom(Tail(s), sep, <<>>)
    ELSE SplitFrom(Tail(s), sep, Append(piece, Head(s)))

\* strings.Split for a one-character separator
Split(s, sep) == SplitFrom(s, sep, <<>>)

\* a content with two URLs, three endpoints (one empty, one of three characters),
\* a repeated parameter and a repeated secret
RichContent ==
    << [k |-> "endpoint", s |-> <<"/", "a">>],
       [k |-> "endpoint", s |-> https],
       [k |-> "param", s |-> <<"i", "d">>],
       [k |-> "secret", s |-> <<"A", "K", "I", "A">>],
       [k |-> "endpoint", s |-> <<"h", "t", "t">>],
       [k |-> "param", s |-> <<"i", "d">>],
       [k |-> "secret", s |-> <<"A", "K", "I", "A">>],
       [k |-> "endpoint", s |-> http],
       [k |-> "endpoint", s |-> <<>>] >>

\* client.R().Get(URL): the body, or a transport error
Get(url) ==
    IF url = okURL THEN [err |-> FALSE, body |-> RichContent]
    ELSE [err |-> TRUE, body |-> <<>>]

Request(URL, Header) ==
    LET u == ParseURL(URL)
    IN  IF u.nil THEN [kind |-> "panic", body |-> <<>>]
        ELSE IF u.Host = "" THEN [kind |-> "error", body |-> <<>>]
        ELSE IF Header # <<>> /\ Len(Split(Header, ":")) # 2
             THEN [kind |-> "fatal", body |-> <<>>]
        ELSE LET resp == Get(URL)
             IN  IF resp.err THEN [kind |-> "error", body |-> <<>>]
                 ELSE [kind |-> "ok", body |-> resp.body]

(* ------------------------------ inputs -------------------------------- *)

\* -H values: none, "X:v", "Xv" (no colon), "X:v:w" (two colons)
Headers ==
    { <<>>,
      <<"X", ":", "v">>,
      <<"X", "v">>,
      <<"X", ":", "v", ":", "w">> }

\* the local files: app.js can be read, gone.js cannot
Readable(f) == f = "app.js"

\* fileutil.FileExists: urls.txt exists, nolist.txt does not
FileExists(f) == f = "urls.txt"

\* what app.js may hold: nothing recognisable, one token of any kind, or RichContent
FileContents == { <<>>, RichContent } \cup { <<t>> : t \in Tokens }

\* strings.Fields of the list file / of standard input: no empty word
Batches == UNION { [1..n -> URLSet] : n \in 0..MaxURLs }

Input(file, url, list, stdin, words, fileData) ==
    [file |-> file, url |-> url, list |-> list, stdin |-> stdin, words |-> words,
     fileData |-> fileData]

\* the command lines: no input at all, a local file, a single URL, a batch
\* (flags that the chosen mode never reads are left at their defaults)
Inputs ==
    { Input("", "", "", FALSE, <<>>, <<>>) }
        \cup { Input("app.js", "", "", FALSE, <<>>, d) : d \in FileContents }
        \cup { Input("gone.js", "", "", FALSE, <<>>, <<>>) }
        \cup { Input("", u, l, FALSE, <<>>, <<>>) : u \in URLSet, l \in {"", "nolist.txt"} }
        \cup { Input("", "", "nolist.txt", FALSE, <<>>, <<>>) }
        \cup { Input("", u, "urls.txt", st, w, <<>>) :
                   u \in {"", okURL}, st \in BOOLEAN, w \in Batches }
        \cup { Input("", u, "", TRUE, w, <<>>) : u \in {"", okURL}, w \in Batches }

(* ------------------------------- main --------------------------------- *)

Log(ev, src) == [ev |-> ev, cat |-> "", items |-> <<>>, src |-> src]

\* state after flagSet.Parse (lines 34-60)
Init ==
    /\ \E i \in Inputs, f \in [1..5 -> BOOLEAN], h \in Headers :
          /\ opt = [file |-> i.file, url |-> i.url, list |-> i.list, endpoint |-> f[1],
                    secret |-> f[2], parameter |-> f[3], all |-> f[4], urls |-> f[5],
                    header |-> h, verbose |-> FALSE]
          /\ env = [stdin |-> i.stdin, words |-> i.words, fileData |-> i.fileData]
    /\ URLs = <<>>
    /\ idx = 1
    /\ pc = "main"
    /\ Data = <<>>
    /\ Source = ""
    /\ result = NoResult
    /\ out = <<>>

NoInput == opt.url = "" /\ opt.list = "" /\ opt.file = "" /\ ~env.stdin

\* lines 62-65
Usage ==
    /\ pc = "main"
    /\ NoInput
    /\ out' = Append(out, Log("usage", ""))
    /\ pc' = "done"
    /\ UNCHANGED <<opt, env, URLs, idx, Data, Source, result>>

\* Run(Data, Source) followed by HandleResults, as main calls them (74-76, 110-112)
ScanAndPresent(bin, src, before) ==
    LET r == Run(bin, src)
    IN  /\ Data' = bin
        /\ Source' = src
        /\ result' = r
        /\ IF r.raised
           THEN /\ out' = out \o before \o <<Log("scan", src)>>
                /\ pc' = "panic"
           ELSE /\ out' = out \o before \o <<Log("scan", src)>>
                            \o Tag(HandleResults(opt.endpoint, opt.parameter, opt.urls,
                                                 opt.secret, opt.all, r.secrets, r.urls,
                                                 r.endpoints, r.parameters), src)
                /\ pc' = IF src = opt.file THEN "done" ELSE "loop"

\* lines 67-78
ScanFile ==
    /\ pc = "main"
    /\ ~NoInput
    /\ opt.file # ""
    /\ LET ok == Readable(opt.file)
           bin == IF ok THEN env.fileData ELSE <<>>
           failed == IF ok THEN <<>> ELSE <<Log("error", opt.file)>>
       IN  ScanAndPresent(bin, opt.file, failed \o <<Log("processing", opt.file)>>)
    /\ UNCHANGED <<opt, env, URLs, idx>>

\* lines 80-99
CollectURLs ==
    /\ pc = "main"
    /\ ~NoInput
    /\ opt.file = ""
    /\ URLs' = IF env.stdin \/ FileExists(opt.list) THEN env.words ELSE <<opt.url>>
    /\ idx' = 1
    /\ pc' = "loop"
    /\ UNCHANGED <<opt, env, Data, Source, result, out>>

\* one iteration of the loop of lines 101-113
LoopBody ==
    /\ pc = "loop"
    /\ idx <= Len(URLs)
    /\ LET url == URLs[idx]
           r == Request(url, opt.header)
       IN  IF r.kind = "ok"
           THEN ScanAndPresent(r.body, url, <<Log("processing", url)>>)
           ELSE /\ pc' = IF r.kind = "error" THEN "loop" ELSE r.kind
                /\ out' = Append(out, Log(r.kind, url))
                /\ UNCHANGED <<Data, Source, result>>
    /\ idx' = idx + 1
    /\ UNCHANGED <<opt, env, URLs>>

\* the loop is over: main returns
LoopEnd ==
    /\ pc = "loop"
    /\ idx > Len(URLs)
    /\ pc' = "done"
    /\ UNCHANGED <<opt, env, URLs, idx, Data, Source, result, out>>

Next == Usage \/ ScanFile \/ CollectURLs \/ LoopBody \/ LoopEnd

Spec == Init /\ [][Next]_vars

(* --------------------------- scan harness ------------------------------ *)

SourceNames == {"app.js", okURL}

\* the first source, its content still to be assembled; Run reads no option
InitRun ==
    /\ opt = [file |-> "", url |-> "", list |-> "", endpoint |-> FALSE, secret |-> FALSE,
              parameter |-> FALSE, all |-> FALSE, urls |-> FALSE, header |-> <<>>,
              verbose |-> FALSE]
    /\ env = [stdin |-> FALSE, words |-> <<>>, fileData |-> <<>>]
    /\ URLs = <<>>
    /\ idx = 1
    /\ pc = "input"
    /\ Data = <<>>
    /\ Source \in SourceNames
    /\ result = NoResult
    /\ out = <<>>

\* the content of the source grows by one token
AppendToken ==
    /\ pc = "input"
    /\ Len(Data) < MaxLen
    /\ \E t \in Tokens : Data' = Append(Data, t)
    /\ UNCHANGED <<opt, env, URLs, idx, pc, Source, result, out>>

\* Run is called on the source
Scan ==
    /\ pc = "input"
    /\ result' = Run(Data, Source)
    /\ pc' = IF result'.raised THEN "panic" ELSE "scanned"
    /\ UNCHANGED <<opt, env, URLs, idx, Data, Source, out>>

\* the next source is taken up (idx 2: a source scanned after another one)
NextSource ==
    /\ pc = "scanned"
    /\ idx' = 2
    /\ \E s \in SourceNames : Source' = s
    /\ Data' = <<>>
    /\ result' = NoResult
    /\ pc' = "input"
    /\ UNCHANGED <<opt, env, URLs, out>>

NextRun == AppendToken \/ Scan \/ NextSource

SpecRun == InitRun /\ [][NextRun]_vars

(* ---------------------- properties of Run ------------------------------ *)

Range(seq) == { seq[i] : i \in DOMAIN seq }

Count(seq, x) == Cardinality({ i \in DOMAIN seq : seq[i] = x })

\* position of the first occurrence of x in seq
FirstIndex(seq, x) == CHOOSE i \in DOMAIN seq : seq[i] = x /\ \A j \in 1..(i - 1) : seq[j] # x

\* v begins with the four characters h, t, t, p
StartsWithHttp(v) ==
    Len(v) >= 4 /\ v[1] = "h" /\ v[2] = "t" /\ v[3] = "t" /\ v[4] = "p"

NotStartsWithHttp(v) == ~StartsWithHttp(v)

\* Run has been called on (Data, Source) and result holds what it returned
Scanned == pc = "scanned"

\* C1: every raw endpoint candidate lands in exactly one of urls and endpoints
\* (lengths add up, each value keeps its number of occurrences, no value is in
\* both), every element of urls starts with "http" and no element of endpoints does.
C1_Partition ==
    Scanned =>
        LET raw == EndpointsMatch(Data)
        IN  /\ Len(raw) = Len(result.urls) + Len(result.endpoints)
            /\ \A v \in Range(raw) \cup Range(result.urls) \cup Range(result.endpoints) :
                  /\ Count(raw, v) = Count(result.urls, v) + Count(result.endpoints, v)
                  /\ ~(v \in Range(result.urls) /\ v \in Range(result.endpoints))
            /\ \A i \in DOMAIN result.urls : StartsWithHttp(result.urls[i])
            /\ \A i \in DOMAIN result.endpoints : ~StartsWithHttp(result.endpoints[i])

\* "httpf" was classified as a URL next to a candidate that was not
C1_Witness ==
    /\ Scanned
    /\ <<"h", "t", "t", "p", "f">> \in Range(result.urls)
    /\ <<"H", "t", "t", "p">> \in Range(result.endpoints)

\* C2: the parameters returned are the stable deduplication of the raw matches:
\* no repeats, the same values, in the order of their first occurrences, and
\* deduplicating again changes nothing.
C2_StableDedupe ==
    Scanned =>
        LET raw == ParameterMatch(Data)
            p == result.parameters
        IN  /\ \A i, j \in DOMAIN p : i # j => p[i] # p[j]
            /\ Range(p) = Range(raw)
            /\ \A i, j \in DOMAIN p : i < j => FirstIndex(raw, p[i]) < FirstIndex(raw, p[j])
            /\ Dedupe(p) = p

\* raw parameters id, name, id gave id, name
C2_Witness ==
    /\ Scanned
    /\ ParameterMatch(Data) = << <<"i", "d">>, <<"n", "a", "m", "e">>, <<"i", "d">> >>
    /\ result.parameters = << <<"i", "d">>, <<"n", "a", "m", "e">> >>

\* C9: urls is the subsequence of the raw candidates that start with "http" and
\* endpoints the subsequence of the others, in raw order, repeated candidates kept.
C9_Subsequences ==
    Scanned =>
        LET raw == EndpointsMatch(Data)
        IN  /\ result.urls = SelectSeq(raw, StartsWithHttp)
            /\ result.endpoints = SelectSeq(raw, NotStartsWithHttp)

\* a URL found twice is returned twice, around an endpoint
C9_Witness ==
    /\ Scanned
    /\ EndpointsMatch(Data) = <<https, <<"/", "a">>, https>>
    /\ result.urls = <<https, https>>
    /\ result.endpoints = << <<"/", "a">> >>

\* the (rule, occurrence) pairs of the secret tokens of D
SecretPairs(D) ==
    { <<r, i>> \in (1..Len(Rules)) \X (DOMAIN D) :
          D[i].k = "secret" /\ D[i].s \in Rules[r].Texts }

\* C10: the secrets returned are the matcher's output for this source, one entry per
\* rule and occurrence with repeats kept, each tagged with this source, whatever
\* was scanned before.
C10_SecretsAsMatched ==
    Scanned =>
        /\ result.secrets = SecretsMatch(Source, Data)
        /\ Len(result.secrets) = Cardinality(SecretPairs(Data))
        /\ \A i \in DOMAIN result.secrets : result.secrets[i].Source = Source

\* the same secret twice in a source scanned after another one: two equal entries
C10_Witness ==
    /\ Scanned
    /\ idx = 2
    /\ Data = << [k |-> "secret", s |-> <<"t", "o", "k">>],
                 [k |-> "secret", s |-> <<"t", "o", "k">>] >>
    /\ Len(result.secrets) = 2
    /\ result.secrets[1] = result.secrets[2]

(* --------------------- properties of the command ----------------------- *)

\* main has returned, or the process was ended by a fatal log or a panic
Terminated == pc \in {"done", "fatal", "panic"}

\* a header that is given and is not one name and one value around a single ':'
Malformed(h) == h # <<>> /\ Count(h, ":") # 1

\* the positions in the output at which Run was called
ScanIndexes == { i \in DOMAIN out : out[i].ev = "scan" }

HasScan == ScanIndexes # {}

LastScan == CHOOSE i \in ScanIndexes : \A j \in ScanIndexes : j <= i

IsPresentation(e) == e.ev \in {"results", "noresults"}

\* what was presented for the source scanned last
Presented == SelectSeq(SubSeq(out, LastScan + 1, Len(out)), IsPresentation)

PresentedCats == [i \in DOMAIN Presented |-> Presented[i].cat]

NoFlags == ~opt.endpoint /\ ~opt.urls /\ ~opt.parameter /\ ~opt.secret /\ ~opt.all

OnlyAll == opt.all /\ ~opt.endpoint /\ ~opt.urls /\ ~opt.parameter /\ ~opt.secret

\* the categories the flags select
Selected ==
    (IF opt.secret \/ opt.all \/ NoFlags THEN {"Secrets"} ELSE {})
        \cup (IF opt.urls \/ opt.all THEN {"URLs"} ELSE {})
        \cup (IF opt.endpoint \/ opt.all THEN {"Endpoints"} ELSE {})
        \cup (IF opt.parameter \/ opt.all THEN {"Parameters"} ELSE {})

\* the URLs come from a list file or from standard input
BatchMode == opt.file = "" /\ (env.stdin \/ FileExists(opt.list))

IsHandling(e) == e.ev \in {"error", "processing"}

\* the sources the loop has dealt with, each reported as an error or processed
Handled == SelectSeq(out, IsHandling)

\* C3: with a malformed custom header and some input given, no source is ever
\* scanned and the run can only end in the fatal configuration error.
C3_MalformedHeaderFatal ==
    (Malformed(opt.header) /\ ~NoInput) =>
        /\ ~HasScan
        /\ Terminated => pc = "fatal"

\* C4: when the local file cannot be read, Run is not called on it and nothing is
\* presented for it.
C4_UnreadableFileSkipped ==
    (opt.file # "" /\ ~Readable(opt.file)) =>
        \A i \in DOMAIN out : out[i].ev \notin {"scan", "results", "noresults"}

\* C5: in batch mode (the header, if any, well formed) every source of the list is
\* dealt with once, in list order, a source without host or whose fetch fails as a
\* reported error that is neither scanned nor presented, the others scanned and
\* then presented; a failing source does not stop the later ones.
C5_BatchHandlesEverySource ==
    (BatchMode /\ ~Malformed(opt.header)) =>
        /\ Terminated =>
              /\ Len(Handled) = Len(URLs)
              /\ \A k \in DOMAIN Handled :
                    /\ Handled[k].src = URLs[k]
                    /\ Handled[k].ev = "processing" <=> URLs[k] = okURL
        /\ \A i \in DOMAIN out :
              /\ out[i].ev = "scan" =>
                    i > 1 /\ out[i - 1].ev = "processing" /\ out[i - 1].src = out[i].src
              /\ IsPresentation(out[i]) =>
                    /\ i > 1
                    /\ out[i - 1].ev = "scan" \/ IsPresentation(out[i - 1])
                    /\ out[i - 1].src = out[i].src

\* C6: with no selection flag only the secrets are presented; with only the flag
\* 'all', secrets, URLs, endpoints and parameters are, in this order.
C6_DefaultAndAll ==
    HasScan =>
        /\ NoFlags => PresentedCats = <<"Secrets">>
        /\ OnlyAll => PresentedCats = <<"Secrets", "URLs", "Endpoints", "Parameters">>

\* no flag set, and the scan found URLs and parameters that are not presented
C6_Witness ==
    /\ HasScan
    /\ NoFlags
    /\ Len(result.urls) > 0
    /\ Len(result.parameters) > 0
    /\ Len(Presented) = 1

\* C7: after a scan that found nothing, "No results" is reported for every selected
\* category and no results are printed, whatever combination of flags is set.
C7_NoResultsForEachSelected ==
    (HasScan /\ result.secrets = <<>> /\ result.urls = <<>> /\ result.endpoints = <<>>
        /\ result.parameters = <<>>) =>
            /\ \A c \in Selected :
                  \E i \in DOMAIN Presented :
                      Presented[i].ev = "noresults" /\ Presented[i].cat = c
            /\ \A i \in DOMAIN Presented : Presented[i].ev = "noresults"

\* C8: Run never raises (no slice out of range in the prefix test) and returns the
\* four slots, each a sequence, whichever selection flags are set.
C8_RunTotal ==
    /\ ~result.raised
    /\ HasScan =>
          /\ {"secrets", "urls", "endpoints", "parameters"} \subseteq DOMAIN result
          /\ result.urls \in Seq(Candidates)
          /\ result.endpoints \in Seq(Candidates)
          /\ result.parameters \in Seq(ParamNames)
          /\ \A i \in DOMAIN result.secrets : result.secrets[i].Match \in SecretTexts
          /\ Len(result.urls) + Len(result.endpoints) = Len(EndpointsMatch(Data))

\* with only the parameters flag set, a content holding the empty candidate and a
\* three-character one was scanned and all four slots came back filled
C8_Witness ==
    /\ HasScan
    /\ opt.parameter /\ ~opt.endpoint /\ ~opt.urls /\ ~opt.secret /\ ~opt.all
    /\ <<>> \in Range(result.endpoints)
    /\ <<"h", "t", "t">> \in Range(result.endpoints)
    /\ Len(result.urls) > 0
    /\ Len(result.secrets) > 0
    /\ Len(result.parameters) > 0

====
